---------------------------- MODULE Spec2Model ----------------------------
(***************************************************************************)
(* Health Metrics API (Django / Django REST Framework).                    *)
(*                                                                         *)
(* The model covers the relational store of HealthMetric and Goal rows     *)
(* with their database constraints (metrics/models.py), the serializers'  *)
(* validation and the progress computation (metrics/serializers.py) and    *)
(* the request handlers of the view sets (metrics/views.py).               *)
(*                                                                         *)
(* Dates are day numbers of the year 2026 (1 = 2026-01-01, a Thursday);    *)
(* arithmetic on them is timedelta arithmetic.  Decimal values are whole   *)
(* numbers; an average is kept as an exact fraction in lowest terms and a  *)
(* percentage as a whole number of tenths of a percent (round(x, 1)).      *)
(***************************************************************************)
EXTENDS Integers, Sequences, FiniteSets, TLC

VARIABLES
    metrics,        \* the HealthMetric table: a set of rows
    goals,          \* the Goal table: a set of rows
    today,          \* timezone.now().date()
    nextMetricId,   \* the HealthMetric primary-key sequence
    nextGoalId,     \* the Goal primary-key sequence
    pending,        \* create requests that passed is_valid() and have not saved yet
    response        \* the outcome of the last completed request

vars == <<metrics, goals, today, nextMetricId, nextGoalId, pending, response>>

-----------------------------------------------------------------------------
(* Bounds of the model.                                                    *)

MaxMetrics == 3      \* HealthMetric rows ever inserted
MaxGoals == 2        \* Goal rows ever inserted
FirstDay == 32       \* the clock starts at 2026-02-01, a Sunday
LastDay == 34        \* the clock stops at 2026-02-03, a Tuesday
CalendarDays == 790  \* the calendar specification starts on any day to 2028-02-29

-----------------------------------------------------------------------------
(* Domains.                                                                *)

Users == {"alice", "bob"}
MetricTypeIds == {"steps", "sleep", "alcohol"}
TrackedTypes == {"steps", "sleep"}  \* the metric types most requests are about
NoDate == 0          \* end_date = None
NoRow == [id |-> 0]  \* no row / no request in a slot
NoBound == -1        \* min_value / max_value = None

\* The MetricType table (admin-managed): steps has both bounds, sleep has none,
\* alcohol has the maximum 0.
MetricTypes ==
    [steps   |-> [min_value |-> 0, max_value |-> 10, is_active |-> TRUE],
     sleep   |-> [min_value |-> NoBound, max_value |-> NoBound, is_active |-> TRUE],
     alcohol |-> [min_value |-> 0, max_value |-> 0, is_active |-> TRUE]]

DAILY == "DAILY"
WEEKLY == "WEEKLY"
MONTHLY == "MONTHLY"
GoalType == {DAILY, WEEKLY, MONTHLY}
GoalDirection == {"INCREASE", "DECREASE", "MAINTAIN"}

-----------------------------------------------------------------------------
(* datetime.date on day numbers counted from 2026-01-01 = 1.                *)

MonthLengths == <<31, 28, 31, 30, 31, 30, 31, 31, 30, 31, 30, 31>>

IsLeap(y) == (y % 4 = 0 /\ y % 100 # 0) \/ y % 400 = 0
DaysInYear(y) == IF IsLeap(y) THEN 366 ELSE 365
DaysInMonth(y, m) == IF m = 2 /\ IsLeap(y) THEN 29 ELSE MonthLengths[m]

RECURSIVE DaysBeforeYear(_)
DaysBeforeYear(y) == IF y = 2026 THEN 0 ELSE DaysBeforeYear(y - 1) + DaysInYear(y - 1)

RECURSIVE DaysBeforeMonth(_, _)
DaysBeforeMonth(y, m) ==
    IF m = 1 THEN 0 ELSE DaysBeforeMonth(y, m - 1) + DaysInMonth(y, m - 1)

RECURSIVE YearFrom(_, _)
YearFrom(y, d) == IF d <= DaysInYear(y) THEN y ELSE YearFrom(y + 1, d - DaysInYear(y))

\* date.year, date.month and date.day of day number d >= 1
YearOf(d) == YearFrom(2026, d)
MonthOf(d) ==
    LET y == YearOf(d)
        n == d - DaysBeforeYear(y)
    IN  CHOOSE m \in 1..12 :
            DaysBeforeMonth(y, m) < n /\ n <= DaysBeforeMonth(y, m) + DaysInMonth(y, m)
DayOfMonth(d) == d - DaysBeforeYear(YearOf(d)) - DaysBeforeMonth(YearOf(d), MonthOf(d))

\* date.weekday(): Monday is 0; 2026-01-01 is a Thursday
\* (variant: the week counted from Sunday)
weekdaySundayFirst(d) == (d + 3) % 7
weekday(d) == (d + 2) % 7

\* date.replace(day=n)
replace_day(d, n) == DaysBeforeYear(YearOf(d)) + DaysBeforeMonth(YearOf(d), MonthOf(d)) + n

-----------------------------------------------------------------------------
(* Exact fractions <<n, d>> with d > 0, for Avg() and the percentage.      *)

RECURSIVE Gcd(_, _)
Gcd(a, b) == IF b = 0 THEN a ELSE Gcd(b, a % b)

Frac(n, d) == IF n = 0 THEN <<0, 1>> ELSE <<n \div Gcd(n, d), d \div Gcd(n, d)>>

\* round(x, 1) on tenths: round half to even of n / d, for n >= 0 and d > 0.
\* The quotient is exact here; the code rounds the nearest float, which differs
\* only on ties that no binary float holds.
RoundHalfEven(n, d) ==
    LET q == n \div d
        r == n % d
    IN  IF 2 * r < d THEN q
        ELSE IF 2 * r > d THEN q + 1
        ELSE IF q % 2 = 0 THEN q ELSE q + 1

RECURSIVE SumValues(_)
SumValues(rows) ==
    IF rows = {} THEN 0
    ELSE LET r == CHOOSE x \in rows : TRUE
         IN  r.value + SumValues(rows \ {r})

-----------------------------------------------------------------------------
(* The database constraints of metrics/models.py.                          *)

\* UniqueConstraint(fields=[user, metric_type, recorded_date]) on a table
unique_daily_metric(rows) ==
    \A a, b \in rows :
        (a.user = b.user /\ a.metric_type = b.metric_type
            /\ a.recorded_date = b.recorded_date) => a.id = b.id

\* UniqueConstraint(fields=[user, metric_type, goal_type], condition=Q(is_active=True))
unique_active_goal_per_type(rows) ==
    \A a, b \in rows :
        (a.is_active /\ b.is_active /\ a.user = b.user
            /\ a.metric_type = b.metric_type /\ a.goal_type = b.goal_type) => a.id = b.id

\* Goal.is_expired
is_expired(obj) ==
    IF obj.end_date # NoDate THEN today > obj.end_date ELSE FALSE

-----------------------------------------------------------------------------
(* GoalSerializer.get_progress.                                            *)

\* the start of the date range of a goal type
period_start(goal_type) ==
    IF goal_type = DAILY THEN today
    ELSE IF goal_type = WEEKLY THEN today - weekday(today)
    ELSE replace_day(today, 1)

period_end(goal_type) == today

\* HealthMetric.objects.filter(user, metric_type, recorded_date__gte, recorded_date__lte)
metrics_in_range(obj) ==
    {m \in metrics : /\ m.user = obj.user
                     /\ m.metric_type = obj.metric_type
                     /\ m.recorded_date >= period_start(obj.goal_type)
                     /\ m.recorded_date <= period_end(obj.goal_type)}

\* aggregate(Sum('value')) or 0 for a daily goal, aggregate(Avg('value')) or 0 otherwise
\* (variant: Sum for every goal type)
current_valueAlwaysSum(obj) == <<SumValues(metrics_in_range(obj)), 1>>
current_value(obj) ==
    LET rows == metrics_in_range(obj)
    IN  IF rows = {} THEN <<0, 1>>
        ELSE IF obj.goal_type = DAILY THEN Frac(SumValues(rows), 1)
        ELSE Frac(SumValues(rows), Cardinality(rows))

\* round(min(100, current / target * 100), 1) if target > 0, else 0: in tenths
\* (variants: 100 for a zero target; no min(100, ...))
percentageZeroTargetFull(cur, target_value) ==
    IF target_value > 0 /\ cur[1] < target_value * cur[2]
    THEN RoundHalfEven(1000 * cur[1], target_value * cur[2])
    ELSE 1000
percentageUnclamped(cur, target_value) ==
    IF target_value > 0
    THEN RoundHalfEven(1000 * cur[1], target_value * cur[2])
    ELSE 0
percentage(cur, target_value) ==
    IF target_value > 0
    THEN IF 100 * cur[1] > 100 * target_value * cur[2]
         THEN 1000
         ELSE RoundHalfEven(1000 * cur[1], target_value * cur[2])
    ELSE 0

get_progress(obj) ==
    [current_value |-> current_value(obj),
     target_value  |-> obj.target_value,
     percentage    |-> percentage(current_value(obj), obj.target_value),
     period_start  |-> period_start(obj.goal_type),
     period_end    |-> period_end(obj.goal_type)]

-----------------------------------------------------------------------------
(* Requests and responses.                                                 *)

\* attrs.get(name, default) on the validated data of a request
Get(attrs, name, default) == IF name \in DOMAIN attrs THEN attrs[name] ELSE default

\* Python truth of an optional Decimal: None and 0 are both false
Truthy(x) == x # NoBound /\ x # 0

\* the row with the fields of attrs written over it (ModelSerializer.update)
Updated(row, attrs) ==
    [f \in DOMAIN row |-> IF f \in DOMAIN attrs THEN attrs[f] ELSE row[f]]

Response(op, user, status, body) ==
    [op |-> op, user |-> user, status |-> status, body |-> body]

NoBody == <<>>

-----------------------------------------------------------------------------
(* HealthMetricCreateSerializer (create, update and partial_update of      *)
(* HealthMetricViewSet).                                                   *)

\* the field validation that runs before validate(): required fields, the
\* metric type exists, MinValueValidator(0) on value
\* (variant: no validator on value)
HealthMetricCreate_fields_validAnyValue(attrs, partial) ==
    /\ partial \/ {"metric_type", "value"} \subseteq DOMAIN attrs
    /\ "metric_type" \in DOMAIN attrs => attrs.metric_type \in MetricTypeIds
HealthMetricCreate_fields_valid(attrs, partial) ==
    /\ partial \/ {"metric_type", "value"} \subseteq DOMAIN attrs
    /\ "metric_type" \in DOMAIN attrs => attrs.metric_type \in MetricTypeIds
    /\ "value" \in DOMAIN attrs => attrs.value >= 0

\* the bounds check of validate()
HealthMetricCreate_bounds_ok(attrs) ==
    ({"metric_type", "value"} \subseteq DOMAIN attrs) =>
        LET mt == MetricTypes[attrs.metric_type]
        IN  /\ ~(Truthy(mt.min_value) /\ attrs.value < mt.min_value)
            /\ ~(Truthy(mt.max_value) /\ attrs.value > mt.max_value)

\* the existing-entry check of validate(), for a create only
HealthMetricCreate_existing(user, attrs) ==
    \E m \in metrics :
        /\ m.user = user
        /\ m.metric_type = Get(attrs, "metric_type", "")
        /\ m.recorded_date = Get(attrs, "recorded_date", today)

\* serializer.is_valid() with instance = None (create) or a row (update)
HealthMetricCreate_is_valid(instance, user, attrs, partial) ==
    /\ HealthMetricCreate_fields_valid(attrs, partial)
    /\ HealthMetricCreate_bounds_ok(attrs)
    /\ (instance = NoRow) => ~HealthMetricCreate_existing(user, attrs)

\* the row HealthMetricCreateSerializer.create hands to the INSERT
NewMetric(user, attrs) ==
    [id            |-> nextMetricId,
     user          |-> user,
     metric_type   |-> attrs.metric_type,
     value         |-> attrs.value,
     recorded_date |-> Get(attrs, "recorded_date", today),
     notes         |-> Get(attrs, "notes", "")]

\* INSERT of a row: the table afterwards, the table itself when the
\* constraint unique_daily_metric raises IntegrityError
\* (variant: a table without the constraint)
metrics_insertUnchecked(row) == metrics \cup {row}
metrics_insert(row) ==
    IF unique_daily_metric(metrics \cup {row}) THEN metrics \cup {row} ELSE metrics

\* UPDATE of a row, likewise
\* (variants: a table without the constraint; the row takes the place of the
\* row that holds its key)
metrics_updateUnchecked(old, new) == (metrics \ {old}) \cup {new}
metrics_updateReplacing(old, new) ==
    {m \in metrics \ {old} : ~(/\ m.user = new.user
                               /\ m.metric_type = new.metric_type
                               /\ m.recorded_date = new.recorded_date)} \cup {new}
metrics_update(old, new) ==
    IF unique_daily_metric((metrics \ {old}) \cup {new})
    THEN (metrics \ {old}) \cup {new}
    ELSE metrics

Requests == 1..2     \* the request slots of concurrent creates

\* POST /metrics/, first half: serializer.is_valid(raise_exception=True)
MetricCreateValidate(slot, user, attrs) ==
    /\ pending[slot] = NoRow
    /\ nextMetricId <= MaxMetrics
    /\ IF HealthMetricCreate_is_valid(NoRow, user, attrs, FALSE)
       THEN /\ pending' = [pending EXCEPT ![slot] =
                               [id |-> slot, user |-> user, attrs |-> attrs]]
            /\ UNCHANGED response
       ELSE /\ response' = Response("metric_create", user, "validation_error", attrs)
            /\ UNCHANGED pending
    /\ UNCHANGED <<metrics, goals, today, nextMetricId, nextGoalId>>

\* POST /metrics/, second half: perform_create, the INSERT
MetricCreateSave(slot) ==
    /\ pending[slot] # NoRow
    /\ LET user == pending[slot].user
           row == NewMetric(user, pending[slot].attrs)
       IN  /\ metrics' = metrics_insert(row)
           /\ IF row \in metrics'
              THEN /\ response' = Response("metric_create", user, "created", row)
                   /\ nextMetricId' = nextMetricId + 1
              ELSE /\ response' = Response("metric_create", user, "integrity_error",
                                           pending[slot].attrs)
                   /\ UNCHANGED nextMetricId
    /\ pending' = [pending EXCEPT ![slot] = NoRow]
    /\ UNCHANGED <<goals, today, nextGoalId>>

\* POST /metrics/ with no other request in between
MetricCreate(user, attrs) ==
    /\ \A s \in Requests : pending[s] = NoRow
    /\ nextMetricId <= MaxMetrics
    /\ IF HealthMetricCreate_is_valid(NoRow, user, attrs, FALSE)
       THEN LET row == NewMetric(user, attrs)
            IN  /\ metrics' = metrics_insert(row)
                /\ IF row \in metrics'
                   THEN /\ response' = Response("metric_create", user, "created", row)
                        /\ nextMetricId' = nextMetricId + 1
                   ELSE /\ response' = Response("metric_create", user,
                                                "integrity_error", attrs)
                        /\ UNCHANGED nextMetricId
       ELSE /\ response' = Response("metric_create", user, "validation_error", attrs)
            /\ UNCHANGED <<metrics, nextMetricId>>
    /\ UNCHANGED <<goals, today, nextGoalId, pending>>

\* PUT (partial = FALSE) or PATCH (partial = TRUE) /metrics/<pk>/
MetricUpdate(user, pk, attrs, partial) ==
    /\ IF \E m \in metrics : m.id = pk /\ m.user = user
       THEN LET old == CHOOSE m \in metrics : m.id = pk
                new == Updated(old, attrs)
            IN  IF HealthMetricCreate_is_valid(old, user, attrs, partial)
                THEN /\ metrics' = metrics_update(old, new)
                     /\ response' = Response("metric_update", user,
                                        IF new \in metrics' THEN "ok"
                                        ELSE "integrity_error", new)
                ELSE /\ response' = Response("metric_update", user,
                                             "validation_error", attrs)
                     /\ UNCHANGED metrics
       ELSE /\ response' = Response("metric_update", user, "not_found", NoBody)
            /\ UNCHANGED metrics
    /\ UNCHANGED <<goals, today, nextMetricId, nextGoalId, pending>>

\* DELETE /metrics/<pk>/
MetricDestroy(user, pk) ==
    /\ IF \E m \in metrics : m.id = pk /\ m.user = user
       THEN /\ metrics' = {m \in metrics : m.id # pk}
            /\ response' = Response("metric_destroy", user, "deleted", NoBody)
       ELSE /\ response' = Response("metric_destroy", user, "not_found", NoBody)
            /\ UNCHANGED metrics
    /\ UNCHANGED <<goals, today, nextMetricId, nextGoalId, pending>>

-----------------------------------------------------------------------------
(* GoalSerializer and GoalViewSet.                                         *)

\* the field validation that runs before validate(): required fields, an
\* active metric type, MinValueValidator(0) on target_value, the choices
Goal_fields_valid(attrs, partial) ==
    /\ partial \/ {"metric_type", "target_value"} \subseteq DOMAIN attrs
    /\ "metric_type" \in DOMAIN attrs =>
           (attrs.metric_type \in MetricTypeIds /\ MetricTypes[attrs.metric_type].is_active)
    /\ "target_value" \in DOMAIN attrs => attrs.target_value >= 0
    /\ "goal_type" \in DOMAIN attrs => attrs.goal_type \in GoalType
    /\ "direction" \in DOMAIN attrs => attrs.direction \in GoalDirection

\* GoalSerializer.validate: only the dates are looked at
Goal_validate(attrs) ==
    LET start_date == Get(attrs, "start_date", today)
        end_date == Get(attrs, "end_date", NoDate)
    IN  ~(end_date # NoDate /\ end_date < start_date)

Goal_is_valid(attrs, partial) == Goal_fields_valid(attrs, partial) /\ Goal_validate(attrs)

\* the row GoalSerializer.create hands to the INSERT, with the model's defaults
NewGoal(user, attrs) ==
    [id           |-> nextGoalId,
     user         |-> user,
     metric_type  |-> attrs.metric_type,
     target_value |-> attrs.target_value,
     goal_type    |-> Get(attrs, "goal_type", DAILY),
     direction    |-> Get(attrs, "direction", "INCREASE"),
     is_active    |-> Get(attrs, "is_active", TRUE),
     start_date   |-> Get(attrs, "start_date", today),
     end_date     |-> Get(attrs, "end_date", NoDate)]

\* INSERT of a row: the table afterwards, the table itself when the
\* constraint unique_active_goal_per_type raises IntegrityError
goals_insert(row) ==
    IF unique_active_goal_per_type(goals \cup {row}) THEN goals \cup {row} ELSE goals

\* UPDATE of a row, likewise
\* (variant: a table without the constraint)
goals_updateUnchecked(old, new) == (goals \ {old}) \cup {new}
goals_update(old, new) ==
    IF unique_active_goal_per_type((goals \ {old}) \cup {new})
    THEN (goals \ {old}) \cup {new}
    ELSE goals

\* goal.is_active = False; goal.save()
\* (variants: the row is deleted instead; every goal of the user is deactivated)
goals_deactivateDeletes(old) == goals \ {old}
goals_deactivateAll(old) ==
    {IF g.user = old.user THEN [g EXCEPT !.is_active = FALSE] ELSE g : g \in goals}
goals_deactivate(old) == goals_update(old, [old EXCEPT !.is_active = FALSE])

\* DELETE of a row
goals_delete(pk) == {g \in goals : g.id # pk}

\* a goal as GoalSerializer renders it
GoalData(obj) ==
    [id |-> obj.id, user |-> obj.user, metric_type |-> obj.metric_type,
     target_value |-> obj.target_value, goal_type |-> obj.goal_type,
     direction |-> obj.direction, is_active |-> obj.is_active,
     is_expired |-> is_expired(obj), progress |-> get_progress(obj),
     start_date |-> obj.start_date, end_date |-> obj.end_date]

\* POST /goals/
GoalCreate(user, attrs) ==
    /\ nextGoalId <= MaxGoals
    /\ IF Goal_is_valid(attrs, FALSE)
       THEN LET row == NewGoal(user, attrs)
            IN  /\ goals' = goals_insert(row)
                /\ IF row \in goals'
                   THEN /\ response' = Response("goal_create", user, "created", row)
                        /\ nextGoalId' = nextGoalId + 1
                   ELSE /\ response' = Response("goal_create", user,
                                                "integrity_error", attrs)
                        /\ UNCHANGED nextGoalId
       ELSE /\ response' = Response("goal_create", user, "validation_error", attrs)
            /\ UNCHANGED <<goals, nextGoalId>>
    /\ UNCHANGED <<metrics, today, nextMetricId, pending>>

\* PUT (partial = FALSE) or PATCH (partial = TRUE) /goals/<pk>/
GoalUpdate(user, pk, attrs, partial) ==
    /\ IF \E g \in goals : g.id = pk /\ g.user = user
       THEN LET old == CHOOSE g \in goals : g.id = pk
                new == Updated(old, attrs)
            IN  IF Goal_is_valid(attrs, partial)
                THEN /\ goals' = goals_update(old, new)
                     /\ response' = Response("goal_update", user,
                                        IF new \in goals' THEN "ok"
                                        ELSE "integrity_error", new)
                ELSE /\ response' = Response("goal_update", user,
                                             "validation_error", attrs)
                     /\ UNCHANGED goals
       ELSE /\ response' = Response("goal_update", user, "not_found", NoBody)
            /\ UNCHANGED goals
    /\ UNCHANGED <<metrics, today, nextMetricId, nextGoalId, pending>>

\* POST /goals/<pk>/deactivate/
GoalDeactivate(user, pk) ==
    /\ IF \E g \in goals : g.id = pk /\ g.user = user
       THEN LET old == CHOOSE g \in goals : g.id = pk
            IN  /\ goals' = goals_deactivate(old)
                /\ response' = Response("goal_deactivate", user, "ok", NoBody)
       ELSE /\ response' = Response("goal_deactivate", user, "not_found", NoBody)
            /\ UNCHANGED goals
    /\ UNCHANGED <<metrics, today, nextMetricId, nextGoalId, pending>>

\* DELETE /goals/<pk>/ (ModelViewSet.destroy)
GoalDestroy(user, pk) ==
    /\ IF \E g \in goals : g.id = pk /\ g.user = user
       THEN /\ goals' = goals_delete(pk)
            /\ response' = Response("goal_destroy", user, "deleted", NoBody)
       ELSE /\ response' = Response("goal_destroy", user, "not_found", NoBody)
            /\ UNCHANGED goals
    /\ UNCHANGED <<metrics, today, nextMetricId, nextGoalId, pending>>

\* GET /goals/<pk>/
GoalRetrieve(user, pk) ==
    /\ IF \E g \in goals : g.id = pk /\ g.user = user
       THEN response' = Response("goal_retrieve", user, "ok",
                                 GoalData(CHOOSE g \in goals : g.id = pk))
       ELSE response' = Response("goal_retrieve", user, "not_found", NoBody)
    /\ UNCHANGED <<metrics, goals, today, nextMetricId, nextGoalId, pending>>

-----------------------------------------------------------------------------
(* DashboardViewSet.list.                                                  *)

\* Goal.objects.filter(user=user, is_active=True).exclude(end_date__lt=today)
active_goals(user) ==
    {g \in goals : /\ g.user = user
                   /\ g.is_active
                   /\ ~(g.end_date # NoDate /\ g.end_date < today)}

\* the goals counted as on track: progress percentage >= 50
\* (variant: strictly above 50)
goals_on_trackAbove(user) ==
    Cardinality({g \in active_goals(user) : get_progress(g).percentage > 500})
goals_on_track(user) ==
    Cardinality({g \in active_goals(user) : get_progress(g).percentage >= 500})

\* order_by('-recorded_date', '-created_at'): ids grow with created_at
\* (variant: the older row first within a date)
MetricBeforeOldestFirst(a, b) ==
    \/ a.recorded_date > b.recorded_date
    \/ a.recorded_date = b.recorded_date /\ a.id < b.id
MetricBefore(a, b) ==
    \/ a.recorded_date > b.recorded_date
    \/ a.recorded_date = b.recorded_date /\ a.id > b.id

RECURSIVE OrderMetrics(_)
OrderMetrics(rows) ==
    IF rows = {} THEN <<>>
    ELSE LET first == CHOOSE r \in rows : \A o \in rows \ {r} : MetricBefore(r, o)
         IN  <<first>> \o OrderMetrics(rows \ {first})

\* Goal.Meta.ordering = ['-created_at']
GoalBefore(a, b) == a.id > b.id

RECURSIVE OrderGoals(_)
OrderGoals(rows) ==
    IF rows = {} THEN <<>>
    ELSE LET first == CHOOSE r \in rows : \A o \in rows \ {r} : GoalBefore(r, o)
         IN  <<first>> \o OrderGoals(rows \ {first})

Take(seq, n) == SubSeq(seq, 1, IF Len(seq) < n THEN Len(seq) ELSE n)

Dashboard(user) ==
    LET week_ago == today - 7
        user_metrics == {m \in metrics : m.user = user}
        ordered_goals == OrderGoals(active_goals(user))
    IN  [total_metrics_logged |-> Cardinality(user_metrics),
         active_goals         |-> Cardinality(active_goals(user)),
         metrics_this_week    |->
             Cardinality({m \in user_metrics : m.recorded_date >= week_ago}),
         goals_on_track       |-> goals_on_track(user),
         recent_metrics       |-> Take(OrderMetrics(user_metrics), 5),
         goal_progress        |->
             [i \in 1..Len(ordered_goals) |-> GoalData(ordered_goals[i])]]

\* GET /dashboard/
\* (variant: the read deactivates the user's goals that have reached 100 percent)
DashboardListCompleting(user) ==
    /\ response' = Response("dashboard", user, "ok", Dashboard(user))
    /\ goals' = {IF g.user = user /\ get_progress(g).percentage >= 1000
                 THEN [g EXCEPT !.is_active = FALSE] ELSE g : g \in goals}
    /\ UNCHANGED <<metrics, today, nextMetricId, nextGoalId, pending>>
DashboardList(user) ==
    /\ response' = Response("dashboard", user, "ok", Dashboard(user))
    /\ UNCHANGED <<metrics, goals, today, nextMetricId, nextGoalId, pending>>

-----------------------------------------------------------------------------
(* GoalViewSet.active.                                                     *)

\* get_queryset().filter(is_active=True).exclude(end_date__lt=today)
\* (variant: goals that end today are left out as well)
GoalViewSet_activeBeforeToday(user) ==
    {g \in goals : /\ g.user = user
                   /\ g.is_active
                   /\ ~(g.end_date # NoDate /\ g.end_date <= today)}
GoalViewSet_active(user) ==
    {g \in goals : /\ g.user = user
                   /\ g.is_active
                   /\ ~(g.end_date # NoDate /\ g.end_date < today)}

\* the goals of the active endpoint as rendered, in Goal.Meta.ordering
ActiveData(user) ==
    LET ordered == OrderGoals(GoalViewSet_active(user))
    IN  [i \in 1..Len(ordered) |-> GoalData(ordered[i])]

\* GET /goals/active/
GoalActive(user) ==
    /\ response' = Response("goal_active", user, "ok", ActiveData(user))
    /\ UNCHANGED <<metrics, goals, today, nextMetricId, nextGoalId, pending>>

-----------------------------------------------------------------------------
(* The read requests of HealthMetricViewSet and GoalViewSet.               *)

\* HealthMetricViewSet.get_queryset: HealthMetric.objects.filter(user=request.user)
\* (variant: no filter)
HealthMetric_get_querysetAll(user) == metrics
HealthMetric_get_queryset(user) == {m \in metrics : m.user = user}

\* GoalViewSet.get_queryset: Goal.objects.filter(user=request.user)
\* (variant: no filter)
Goal_get_querysetAll(user) == goals
Goal_get_queryset(user) == {g \in goals : g.user = user}

\* the pages a list of observations can show: ordering = ['-recorded_date']
\* fixes the order of the dates and leaves the order within a date open
MetricListings(user) ==
    LET rows == HealthMetric_get_queryset(user)
    IN  {s \in [1..Cardinality(rows) -> rows] :
            /\ \A i, j \in DOMAIN s : i # j => s[i] # s[j]
            /\ \A i, j \in DOMAIN s : i < j => s[i].recorded_date >= s[j].recorded_date}

\* GET /metrics/
MetricList(user) ==
    /\ \E s \in MetricListings(user) :
           response' = Response("metric_list", user, "ok", s)
    /\ UNCHANGED <<metrics, goals, today, nextMetricId, nextGoalId, pending>>

\* GET /metrics/<pk>/
MetricRetrieve(user, pk) ==
    /\ IF \E m \in HealthMetric_get_queryset(user) : m.id = pk
       THEN response' = Response("metric_retrieve", user, "ok",
                            CHOOSE m \in HealthMetric_get_queryset(user) : m.id = pk)
       ELSE response' = Response("metric_retrieve", user, "not_found", NoBody)
    /\ UNCHANGED <<metrics, goals, today, nextMetricId, nextGoalId, pending>>

\* GET /goals/: ordering = ['-created_at']
GoalList(user) ==
    /\ LET ordered == OrderGoals(Goal_get_queryset(user))
       IN  response' = Response("goal_list", user, "ok",
                           [i \in 1..Len(ordered) |-> GoalData(ordered[i])])
    /\ UNCHANGED <<metrics, goals, today, nextMetricId, nextGoalId, pending>>

-----------------------------------------------------------------------------
(* The clock: a day passes.                                                *)

Tick(last) ==
    /\ today < last
    /\ today' = today + 1
    /\ UNCHANGED <<metrics, goals, nextMetricId, nextGoalId, pending, response>>

-----------------------------------------------------------------------------
(* The initial state: empty tables, no request under way.                  *)

InitOn(day) ==
    /\ metrics = {}
    /\ goals = {}
    /\ today = day
    /\ nextMetricId = 1
    /\ nextGoalId = 1
    /\ pending = [s \in Requests |-> NoRow]
    /\ response = Response("none", "", "none", NoBody)

Init == InitOn(FirstDay)

-----------------------------------------------------------------------------
(* Progress of one goal: observations are logged day by day with the       *)
(* default recorded_date, one goal is set, and the goal is read.           *)

ProgressMetricInputs ==
    {<<"alice", [metric_type |-> "steps", value |-> 3]>>,
     <<"alice", [metric_type |-> "steps", value |-> 5]>>,
     <<"alice", [metric_type |-> "sleep", value |-> 5]>>,
     <<"bob", [metric_type |-> "steps", value |-> 5]>>}
ProgressGoalInputs ==
    [metric_type : {"steps"}, target_value : {0, 4}, goal_type : GoalType,
     direction : GoalDirection]

NextProgress ==
    \/ \E in \in ProgressMetricInputs : MetricCreate(in[1], in[2])
    \/ \E attrs \in ProgressGoalInputs : goals = {} /\ GoalCreate("alice", attrs)
    \/ \E pk \in 1..MaxGoals : GoalRetrieve("alice", pk)
    \/ Tick(LastDay)

SpecProgress == Init /\ [][NextProgress]_vars

-----------------------------------------------------------------------------
(* Properties of the progress computation, under SpecProgress.             *)

\* the value the owner of a goal logged for the goal's metric type on a day
ValueOn(obj, day) ==
    LET rows == {m \in metrics : m.user = obj.user /\ m.metric_type = obj.metric_type
                                     /\ m.recorded_date = day}
    IN  IF rows = {} THEN 0 ELSE (CHOOSE m \in rows : TRUE).value

LoggedOn(obj, day) ==
    \E m \in metrics : m.user = obj.user /\ m.metric_type = obj.metric_type
                           /\ m.recorded_date = day

RECURSIVE SumOverDays(_, _, _)
SumOverDays(obj, from, to) ==
    IF from > to THEN 0 ELSE ValueOn(obj, from) + SumOverDays(obj, from + 1, to)

WindowSum(obj) == SumOverDays(obj, period_start(obj.goal_type), period_end(obj.goal_type))
WindowCount(obj) ==
    Cardinality({d \in period_start(obj.goal_type)..period_end(obj.goal_type) :
                     LoggedOn(obj, d)})
WindowValues(obj) ==
    {ValueOn(obj, d) : d \in {x \in period_start(obj.goal_type)..period_end(obj.goal_type) :
                                  LoggedOn(obj, x)}}

\* the last response is the progress of a goal as it is now
FreshProgress ==
    /\ response.op = "goal_retrieve"
    /\ response.status = "ok"
    /\ \E g \in goals : response.body = GoalData(g)

\* C2: the current value of every goal is the sum of the owner's values of the
\* goal's metric type in the window for a daily goal, their average for a
\* weekly or monthly goal, and 0 when the window holds none; values 3 and 5 in
\* the window give 8 (daily) and 4 (weekly, monthly).
C2_CurrentValue ==
    \A g \in goals :
        LET cur == get_progress(g).current_value
        IN  /\ cur[2] > 0
            /\ WindowCount(g) = 0 => cur = <<0, 1>>
            /\ (WindowCount(g) > 0 /\ g.goal_type = DAILY) =>
                   cur[1] = WindowSum(g) * cur[2]
            /\ (WindowCount(g) > 0 /\ g.goal_type # DAILY) =>
                   cur[1] * WindowCount(g) = WindowSum(g) * cur[2]
            /\ (WindowCount(g) = 2 /\ WindowValues(g) = {3, 5}) =>
                   cur = IF g.goal_type = DAILY THEN <<8, 1>> ELSE <<4, 1>>

\* a weekly goal was read while its window held the owner's 3 and 5 and another
\* user's value besides
C2_Witness ==
    /\ FreshProgress
    /\ response.body.goal_type = WEEKLY
    /\ response.body.progress.current_value = <<4, 1>>
    /\ \E g \in goals : WindowCount(g) = 2 /\ WindowValues(g) = {3, 5}
    /\ \E m \in metrics : m.user # response.body.user /\ m.recorded_date = today

\* C4: a goal whose target is 0 has percentage 0 whatever the window holds.
C4_ZeroTarget ==
    \A g \in goals : g.target_value = 0 => get_progress(g).percentage = 0

\* a goal with target 0 was read while its window held a positive value
C4_Witness ==
    /\ FreshProgress
    /\ response.body.target_value = 0
    /\ response.body.progress.current_value[1] > 0
    /\ response.body.progress.percentage = 0

\* C5: a goal whose current value has reached a positive target has percentage
\* exactly 100, whatever its direction, and no percentage is above 100.
C5_Clamped ==
    \A g \in goals :
        LET p == get_progress(g)
        IN  /\ p.percentage <= 1000
            /\ (g.target_value > 0
                  /\ p.current_value[1] >= g.target_value * p.current_value[2]) =>
                   \A dir \in GoalDirection :
                       get_progress([g EXCEPT !.direction = dir]).percentage = 1000

\* a goal to decrease was read with its current value beyond its target
C5_Witness ==
    /\ FreshProgress
    /\ response.body.direction = "DECREASE"
    /\ response.body.target_value > 0
    /\ response.body.progress.current_value[1] >
           response.body.target_value * response.body.progress.current_value[2]
    /\ response.body.progress.percentage = 1000

-----------------------------------------------------------------------------
(* The date range of a goal on any day: the server is started on some day, *)
(* goals of the three types are set and read.                              *)

CalendarGoalInputs == [metric_type : {"steps"}, target_value : {4}, goal_type : GoalType]

InitCalendar == \E day \in 1..CalendarDays : InitOn(day)

NextCalendar ==
    \/ \E attrs \in CalendarGoalInputs : GoalCreate("alice", attrs)
    \/ \E pk \in 1..MaxGoals : GoalRetrieve("alice", pk)

SpecCalendar == InitCalendar /\ [][NextCalendar]_vars

\* calendar facts: 2026-01-05 is a Monday; the day numbers of the first days
\* of the months 2026-01 to 2028-12
IsMonday(d) == (d - 5) % 7 = 0
FirstsOfMonth ==
    {1, 32, 60, 91, 121, 152, 182, 213, 244, 274, 305, 335,
     366, 397, 425, 456, 486, 517, 547, 578, 609, 639, 670, 700,
     731, 762, 791, 822, 852, 883, 913, 944, 975, 1005, 1036, 1066}

\* C3: on every day the range of a daily goal is [today, today], the range of a
\* weekly goal starts on a Monday at most 6 days before today, the range of a
\* monthly goal starts on day 1 of today's month, and every range ends today.
C3_Window ==
    \A g \in goals :
        LET p == get_progress(g)
        IN  /\ p.period_end = today
            /\ g.goal_type = DAILY => p.period_start = today
            /\ g.goal_type = WEEKLY =>
                   /\ IsMonday(p.period_start)
                   /\ p.period_start <= today
                   /\ today - p.period_start <= 6
            /\ g.goal_type = MONTHLY =>
                   /\ p.period_start \in FirstsOfMonth
                   /\ p.period_start <= today
                   /\ ~\E f \in FirstsOfMonth : p.period_start < f /\ f <= today

\* a weekly goal was read on a day whose week began in the month before, with
\* a monthly goal beside it
C3_Witness ==
    /\ FreshProgress
    /\ response.body.goal_type = WEEKLY
    /\ response.body.progress.period_start < today
    /\ \E f \in FirstsOfMonth : response.body.progress.period_start < f /\ f <= today
    /\ \E g \in goals : g.goal_type = MONTHLY /\ get_progress(g).period_start < today

-----------------------------------------------------------------------------
(* The dashboard: observations and goals of two users, goals that end, are *)
(* deactivated, and the dashboard is read.                                 *)

DashboardMetricInputs ==
    {<<"alice", [metric_type |-> "steps", value |-> 3]>>,
     <<"alice", [metric_type |-> "steps", value |-> 5]>>,
     <<"alice", [metric_type |-> "steps", value |-> 8]>>}
DashboardGoalInputs ==
    [metric_type : {"steps"}, target_value : {10}, goal_type : {DAILY, WEEKLY}]
        \cup [metric_type : {"steps"}, target_value : {10}, goal_type : {DAILY, WEEKLY},
              end_date : {FirstDay}]

NextDashboard ==
    \/ \E in \in DashboardMetricInputs : MetricCreate(in[1], in[2])
    \/ \E user \in Users, attrs \in DashboardGoalInputs : GoalCreate(user, attrs)
    \/ \E g \in goals : GoalDeactivate(g.user, g.id)
    \/ \E user \in Users : DashboardList(user)
    \/ Tick(FirstDay + 1)

SpecDashboard == Init /\ [][NextDashboard]_vars

\* the last response is the dashboard of a user as it is now
FreshDashboard ==
    /\ response.op = "dashboard"
    /\ response.body = Dashboard(response.user)

\* C1: the dashboard's goals_on_track of every user is the number of the user's
\* goals that are active, not expired (no end date, or end date >= today) and
\* whose progress percentage is >= 50.
C1_OnTrack ==
    \A u \in Users :
        Dashboard(u).goals_on_track =
            Cardinality({g \in goals :
                /\ g.user = u
                /\ g.is_active = TRUE
                /\ (g.end_date = NoDate \/ g.end_date >= today)
                /\ get_progress(g).percentage >= 500})

\* a dashboard was read that counts a goal at exactly 50 percent and leaves out
\* another goal of the user that is at 50 percent or more
C1_Witness ==
    /\ FreshDashboard
    /\ response.body.goals_on_track = 1
    /\ \E g \in goals : /\ g.user = response.user
                        /\ g \in active_goals(g.user)
                        /\ get_progress(g).percentage = 500
    /\ \E g \in goals : /\ g.user = response.user
                        /\ g \notin active_goals(g.user)
                        /\ get_progress(g).percentage >= 500

-----------------------------------------------------------------------------
(* Observations: two users create (two requests may overlap), update and   *)
(* delete observations of one metric type on two days.                     *)

ObsCreateInputs ==
    [metric_type : {"steps"}, value : {3}]
        \cup [metric_type : {"steps"}, value : {3}, recorded_date : {FirstDay + 1}]
ObsPutInputs ==
    [metric_type : {"steps"}, value : {5}, recorded_date : {FirstDay, FirstDay + 1}]
ObsPatchInputs ==
    [value : {5}] \cup [recorded_date : {FirstDay, FirstDay + 1}]

NextObs ==
    \/ \E slot \in Requests, user \in Users, attrs \in ObsCreateInputs :
           MetricCreateValidate(slot, user, attrs)
    \/ \E slot \in Requests : MetricCreateSave(slot)
    \/ \E user \in Users, pk \in 1..MaxMetrics, attrs \in ObsPutInputs :
           MetricUpdate(user, pk, attrs, FALSE)
    \/ \E user \in Users, pk \in 1..MaxMetrics, attrs \in ObsPatchInputs :
           MetricUpdate(user, pk, attrs, TRUE)
    \/ \E user \in Users, pk \in 1..MaxMetrics : MetricDestroy(user, pk)

SpecObs == Init /\ [][NextObs]_vars

\* the key of an observation, and of the observation a create request asks for
Triple(m) == <<m.user, m.metric_type, m.recorded_date>>
RequestTriple(user, attrs) ==
    <<user, attrs.metric_type, Get(attrs, "recorded_date", today)>>
Holds(table, triple) == \E m \in table : Triple(m) = triple

\* C6: the store never holds two observations with the same (user, metric_type,
\* recorded_date), and a create request for a triple that is in the store ends
\* rejected, with the store as it was.
C6_OnePerDay ==
    /\ [](\A a, b \in metrics : a # b => Triple(a) # Triple(b))
    /\ [][(response' # response /\ response'.op = "metric_create"
             /\ Holds(metrics, RequestTriple(response'.user, response'.body)))
          => (/\ response'.status \in {"validation_error", "integrity_error"}
              /\ metrics' = metrics)]_vars

\* a create for a triple in the store was rejected, in a store that an update
\* and a second create have filled
C6_Witness ==
    /\ response.op = "metric_create"
    /\ response.status = "validation_error"
    /\ Holds(metrics, RequestTriple(response.user, response.body))
    /\ \E m \in metrics : m.value = 5
    /\ Cardinality(metrics) >= 2

\* C7: when two create requests for one triple have both passed the duplicate
\* check, the INSERT of the first succeeds and the INSERT of the second fails
\* with the uniqueness violation: an INSERT succeeds exactly when no row holds
\* its triple, and leaves exactly one row for the triple either way.
C7_ConcurrentCreate ==
    [][\A s \in Requests :
           (pending[s] # NoRow /\ pending'[s] = NoRow) =>
               LET t == RequestTriple(pending[s].user, pending[s].attrs)
               IN  /\ Cardinality({m \in metrics' : Triple(m) = t}) = 1
                   /\ IF Holds(metrics, t)
                      THEN /\ response'.status = "integrity_error"
                           /\ metrics' = metrics
                      ELSE /\ response'.status = "created"
                           /\ Cardinality(metrics') = Cardinality(metrics) + 1
      ]_vars

\* the second of two overlapping creates for one triple has just failed
C7_Witness ==
    /\ response.op = "metric_create"
    /\ response.status = "integrity_error"
    /\ Cardinality({m \in metrics :
                       Triple(m) = RequestTriple(response.user, response.body)}) = 1
    /\ \A s \in Requests : pending[s] = NoRow

-----------------------------------------------------------------------------
(* Goals: two users create, update, deactivate and delete goals.           *)

GoalCreateInputs ==
    [metric_type : TrackedTypes, target_value : {4}]
        \cup [metric_type : TrackedTypes, target_value : {4}, goal_type : {WEEKLY}]
        \cup [metric_type : {"steps"}, target_value : {4}, is_active : {FALSE}]
GoalPutInputs ==
    [metric_type : TrackedTypes, target_value : {4}, goal_type : {DAILY, WEEKLY}]
GoalPatchInputs ==
    [is_active : BOOLEAN] \cup [metric_type : TrackedTypes]
        \cup [goal_type : {DAILY, WEEKLY}]

NextGoal ==
    \/ \E user \in Users, attrs \in GoalCreateInputs : GoalCreate(user, attrs)
    \/ \E user \in Users, pk \in 1..MaxGoals, attrs \in GoalPutInputs :
           GoalUpdate(user, pk, attrs, FALSE)
    \/ \E user \in Users, pk \in 1..MaxGoals, attrs \in GoalPatchInputs :
           GoalUpdate(user, pk, attrs, TRUE)
    \/ \E user \in Users, pk \in 1..MaxGoals : GoalDeactivate(user, pk)
    \/ \E user \in Users, pk \in 1..MaxGoals : GoalDestroy(user, pk)

SpecGoal == Init /\ [][NextGoal]_vars

ActiveGoalsOf(table, user, metric_type, goal_type) ==
    {g \in table : /\ g.is_active = TRUE
                   /\ g.user = user
                   /\ g.metric_type = metric_type
                   /\ g.goal_type = goal_type}

\* C8: after any sequence of goal create, update, deactivate and delete
\* requests there is at most one active goal for each (user, metric_type,
\* goal_type).
C8_OneActiveGoal ==
    \A u \in Users, mt \in MetricTypeIds, gt \in GoalType :
        Cardinality(ActiveGoalsOf(goals, u, mt, gt)) <= 1

\* an update that would have made a second active goal of a triple was turned
\* down, and both goals are still there
C8_Witness ==
    /\ response.op = "goal_update"
    /\ response.status = "integrity_error"
    /\ \E a, b \in goals :
           /\ a.id # b.id
           /\ a.is_active /\ ~b.is_active
           /\ a.user = b.user /\ a.metric_type = b.metric_type
           /\ a.goal_type = b.goal_type

\* C9 as the specification states it: a create request for a triple of an
\* observation in the store, or for a second active goal of a (user,
\* metric_type, goal_type), ends as a validation failure and leaves the store
\* unchanged.
C9_DuplicateIsValidationFailure ==
    [][/\ (response' # response /\ response'.op = "metric_create"
             /\ Holds(metrics, RequestTriple(response'.user, response'.body)))
          => (response'.status = "validation_error" /\ metrics' = metrics)
       /\ (response' # response /\ response'.op = "goal_create"
             /\ Get(response'.body, "is_active", TRUE)
             /\ ActiveGoalsOf(goals, response'.user, response'.body.metric_type,
                              Get(response'.body, "goal_type", DAILY)) # {})
          => (response'.status = "validation_error" /\ goals' = goals)]_vars

\* C10 as the specification states it: no operation on goals removes a goal
\* from the store.
C10_NeverRemoved ==
    [][\A g \in goals : \E h \in goals' : h.id = g.id]_vars

\* C10, amended: a goal leaves the store only by the DELETE request of its
\* owner, which removes that goal alone; create, update and deactivate remove
\* no goal, and a goal that stays stops being active only by a deactivate or
\* update request of its owner.
C10_RemovedOnlyByDelete ==
    [][\A g \in goals :
           /\ (~\E h \in goals' : h.id = g.id) =>
                  /\ response'.op = "goal_destroy"
                  /\ response'.status = "deleted"
                  /\ response'.user = g.user
                  /\ goals' = goals \ {g}
           /\ (g.is_active /\ \E h \in goals' : h.id = g.id /\ ~h.is_active) =>
                  /\ response'.op \in {"goal_deactivate", "goal_update"}
                  /\ response'.status = "ok"
                  /\ response'.user = g.user
      ]_vars

\* a goal has been deleted while a deactivated goal is still in the store
C10_Witness ==
    /\ response.op = "goal_destroy"
    /\ response.status = "deleted"
    /\ Cardinality(goals) < nextGoalId - 1
    /\ \E g \in goals : ~g.is_active

-----------------------------------------------------------------------------
(* The week of the dashboard: a user logs observations dated around the    *)
(* edge of the past week and after today, and reads the dashboard.         *)

WeekMetricInputs ==
    [metric_type : TrackedTypes, value : {3},
     recorded_date : {FirstDay - 7, FirstDay - 6, FirstDay, FirstDay + 2}]

NextWeek ==
    \/ \E user \in Users, attrs \in WeekMetricInputs : MetricCreate(user, attrs)
    \/ \E user \in Users : DashboardList(user)
    \/ Tick(FirstDay + 1)

SpecWeek == Init /\ [][NextWeek]_vars

\* C11 as the specification states it: the dashboard's metrics_this_week of
\* every user is the number of the user's observations with recorded_date in
\* [today - 6, today]; earlier and later observations are not counted.
C11_LastSevenDays ==
    \A u \in Users :
        Dashboard(u).metrics_this_week =
            Cardinality({m \in metrics : /\ m.user = u
                                         /\ today - 6 <= m.recorded_date
                                         /\ m.recorded_date <= today})

-----------------------------------------------------------------------------
(* Active goals: two users set goals with and without an end date,         *)
(* deactivate them, days pass, and the active endpoint and the dashboard   *)
(* are read.                                                               *)

ActiveGoalInputs ==
    [metric_type : TrackedTypes, target_value : {4}]
        \cup [metric_type : TrackedTypes, target_value : {4},
              end_date : {FirstDay, FirstDay + 1}]

NextActive ==
    \/ \E user \in Users, attrs \in ActiveGoalInputs : GoalCreate(user, attrs)
    \/ \E g \in goals : GoalDeactivate(g.user, g.id)
    \/ \E user \in Users : GoalActive(user)
    \/ \E user \in Users : DashboardList(user)
    \/ Tick(LastDay)

SpecActive == Init /\ [][NextActive]_vars

\* the ids of the goals in a rendered list
IdsOf(seq) == {seq[i].id : i \in 1..Len(seq)}

\* C12: a goal is expired exactly when it has an end date before today, and
\* the goals that the active endpoint returns and the goals that the
\* dashboard counts and lists are, for every user, exactly the user's goals
\* with is_active true that are not expired; a goal that ends today is among
\* them.
C12_ActiveSet ==
    /\ \A g \in goals : is_expired(g) <=> (g.end_date # NoDate /\ g.end_date < today)
    /\ \A u \in Users :
           LET expected == {g \in goals : /\ g.user = u
                                          /\ g.is_active = TRUE
                                          /\ ~is_expired(g)}
           IN  /\ IdsOf(ActiveData(u)) = {g.id : g \in expected}
               /\ Len(ActiveData(u)) = Cardinality(expected)
               /\ Dashboard(u).active_goals = Cardinality(expected)
               /\ IdsOf(Dashboard(u).goal_progress) = {g.id : g \in expected}
               /\ \A g \in goals :
                      (g.user = u /\ g.is_active /\ g.end_date = today) =>
                          g.id \in IdsOf(ActiveData(u))

\* the active endpoint has returned a goal that ends today and left out an
\* active goal of the same user that ended yesterday
C12_Witness ==
    /\ response.op = "goal_active"
    /\ response.body = ActiveData(response.user)
    /\ \E i \in 1..Len(response.body) :
           /\ response.body[i].end_date = today
           /\ ~response.body[i].is_expired
    /\ \E g \in goals : /\ g.user = response.user
                        /\ g.is_active
                        /\ g.end_date = today - 1
                        /\ g.id \notin IdsOf(response.body)

-----------------------------------------------------------------------------
(* Bounds of a metric type: a user logs and changes values at and beyond   *)
(* the bounds of the three metric types.                                   *)

BoundsCreateInputs == [metric_type : MetricTypeIds, value : {0, 5, 11}]
BoundsPutInputs == [metric_type : {"steps", "alcohol"}, value : {5, 11}]
BoundsPatchInputs == [value : {0, 11}] \cup [metric_type : {"steps", "alcohol"}]

NextBounds ==
    \/ \E attrs \in BoundsCreateInputs : MetricCreate("alice", attrs)
    \/ \E pk \in 1..MaxMetrics, attrs \in BoundsPutInputs :
           MetricUpdate("alice", pk, attrs, FALSE)
    \/ \E pk \in 1..MaxMetrics, attrs \in BoundsPatchInputs :
           MetricUpdate("alice", pk, attrs, TRUE)

SpecBounds == Init /\ [][NextBounds]_vars

\* the value lies within the inclusive bounds of the metric type that are set
WithinBounds(metric_type, value) ==
    LET mt == MetricTypes[metric_type]
    IN  /\ mt.min_value # NoBound => value >= mt.min_value
        /\ mt.max_value # NoBound => value <= mt.max_value

\* C13 as the specification states it: every observation that a create or
\* update request has stored has a value within the inclusive bounds of its
\* metric type that are set, a bound of 0 included.
C13_ValueWithinBounds ==
    \A m \in metrics : WithinBounds(m.metric_type, m.value)

-----------------------------------------------------------------------------
(* Dates of a goal: a user sets goals with and without dates and changes   *)
(* the dates by full and partial updates while days pass.                  *)

GoalDays == {FirstDay, FirstDay + 1}
DatesCreateInputs ==
    [metric_type : {"steps"}, target_value : {4}]
        \cup [metric_type : {"steps"}, target_value : {4}, end_date : GoalDays]
        \cup [metric_type : {"steps"}, target_value : {4},
              start_date : GoalDays, end_date : GoalDays]
DatesPutInputs ==
    [metric_type : {"steps"}, target_value : {4}, end_date : GoalDays]
        \cup [metric_type : {"steps"}, target_value : {4},
              start_date : GoalDays, end_date : GoalDays]
DatesPatchInputs ==
    [end_date : GoalDays] \cup [start_date : GoalDays] \cup [is_active : {FALSE}]

NextDates ==
    \/ \E attrs \in DatesCreateInputs : GoalCreate("alice", attrs)
    \/ \E pk \in 1..MaxGoals, attrs \in DatesPutInputs :
           GoalUpdate("alice", pk, attrs, FALSE)
    \/ \E pk \in 1..MaxGoals, attrs \in DatesPatchInputs :
           GoalUpdate("alice", pk, attrs, TRUE)
    \/ Tick(FirstDay + 1)

SpecDates == Init /\ [][NextDates]_vars

\* C14 as the specification states it: after any sequence of goal create,
\* full-update and partial-update requests, every stored goal that has an
\* end date has end_date >= start_date.
C14_EndNotBeforeStart ==
    \A g \in goals : g.end_date # NoDate => g.end_date >= g.start_date

-----------------------------------------------------------------------------
(* The key of an observation: two users log observations and change their  *)
(* value, notes, metric type and date by full and partial updates.         *)

MaxKeyed == 2        \* rows inserted into a table in the small scenarios
KeyCreateInputs == [metric_type : {"steps"}, value : {3}]
KeyPutInputs == [metric_type : {"sleep"}, value : {5}, recorded_date : {FirstDay}]
KeyPatchInputs ==
    [value : {5}] \cup [notes : {"felt good"}] \cup [recorded_date : {FirstDay + 1}]
        \cup [metric_type : {"sleep"}]

NextKey ==
    \/ \E user \in Users, attrs \in KeyCreateInputs :
           nextMetricId <= MaxKeyed /\ MetricCreate(user, attrs)
    \/ \E m \in metrics, attrs \in KeyPutInputs : MetricUpdate(m.user, m.id, attrs, FALSE)
    \/ \E m \in metrics, attrs \in KeyPatchInputs : MetricUpdate(m.user, m.id, attrs, TRUE)

SpecKey == Init /\ [][NextKey]_vars

\* C15 as the specification states it: an update or partial update of an
\* observation leaves its user, metric_type and recorded_date unchanged.
C15_KeyImmutable ==
    [][\A m \in metrics : \A n \in metrics' :
           n.id = m.id => /\ n.user = m.user
                          /\ n.metric_type = m.metric_type
                          /\ n.recorded_date = m.recorded_date]_vars

\* C15, amended: no request changes the id or the user of an observation; an
\* observation changes only by an update or partial update of its owner that
\* succeeded, which may change its value, notes, metric_type and
\* recorded_date, keeps every other observation as it was, and never leaves
\* two observations with one key.
C15_UpdateKeepsOwner ==
    [][\A m \in metrics : \A n \in metrics' :
           n.id = m.id =>
               /\ n.user = m.user
               /\ n # m =>
                      /\ response'.op = "metric_update"
                      /\ response'.status = "ok"
                      /\ response'.user = m.user
                      /\ response'.body = n
                      /\ metrics' = (metrics \ {m}) \cup {n}
                      /\ \A o \in metrics' \ {n} : Triple(o) # Triple(n)]_vars

\* an observation logged as steps on the first day has been moved to another
\* metric type and another day by updates of its owner, beside a second
\* observation of the same user
C15_Witness ==
    /\ response.op = "metric_update"
    /\ response.status = "ok"
    /\ response.body \in metrics
    /\ response.body.metric_type = "sleep"
    /\ response.body.recorded_date = FirstDay + 1
    /\ \E o \in metrics : o.id # response.body.id /\ o.user = response.user

-----------------------------------------------------------------------------
(* Ownership: two users log observations and set goals, and each of them   *)
(* lists, reads, updates, deletes and deactivates by every primary key.    *)

OwnMetricInputs == [metric_type : {"steps"}, value : {3}]
OwnGoalInputs == [metric_type : {"steps"}, target_value : {4}]
OwnMetricPatch == [value : {5}]
OwnGoalPatch == [target_value : {5}]

NextOwn ==
    \/ \E user \in Users, attrs \in OwnMetricInputs :
           nextMetricId <= MaxKeyed /\ MetricCreate(user, attrs)
    \/ \E user \in Users, attrs \in OwnGoalInputs :
           nextGoalId <= MaxKeyed /\ GoalCreate(user, attrs)
    \/ \E user \in Users, pk \in 1..MaxKeyed, attrs \in OwnMetricPatch :
           MetricUpdate(user, pk, attrs, TRUE)
    \/ \E user \in Users, pk \in 1..MaxKeyed, attrs \in OwnGoalPatch :
           GoalUpdate(user, pk, attrs, TRUE)
    \/ \E user \in Users, pk \in 1..MaxKeyed : MetricDestroy(user, pk)
    \/ \E user \in Users, pk \in 1..MaxKeyed : GoalDestroy(user, pk)
    \/ \E user \in Users, pk \in 1..MaxKeyed : GoalDeactivate(user, pk)
    \/ \E user \in Users, pk \in 1..MaxKeyed : MetricRetrieve(user, pk)
    \/ \E user \in Users, pk \in 1..MaxKeyed : GoalRetrieve(user, pk)
    \/ \E user \in Users : MetricList(user)
    \/ \E user \in Users : GoalList(user)
    \/ \E user \in Users : GoalActive(user)
    \/ \E user \in Users : DashboardList(user)

SpecOwn == Init /\ [][NextOwn]_vars

\* the rows that a response shows
RowsShown(r) ==
    IF r.status # "ok" THEN {}
    ELSE IF r.op \in {"metric_list", "goal_list", "goal_active"}
         THEN {r.body[i] : i \in 1..Len(r.body)}
    ELSE IF r.op \in {"metric_retrieve", "goal_retrieve", "metric_update", "goal_update"}
         THEN {r.body}
    ELSE IF r.op = "dashboard"
         THEN {r.body.recent_metrics[i] : i \in 1..Len(r.body.recent_metrics)}
                  \cup {r.body.goal_progress[i] : i \in 1..Len(r.body.goal_progress)}
    ELSE {}

\* C16: a request of a user changes, adds and removes only observations and
\* goals of that user, every row its response shows is a row of that user, a
\* list shows all of the user's rows, and the dashboard's counts are counts of
\* the user's rows alone.
C16_OwnRecordsOnly ==
    [][LET A == response'.user
           mine == {m \in metrics' : m.user = A}
           myGoals == {g \in goals' : g.user = A}
       IN  /\ \A m \in metrics : m.user # A => m \in metrics'
           /\ \A m \in metrics' : m.user # A => m \in metrics
           /\ \A g \in goals : g.user # A => g \in goals'
           /\ \A g \in goals' : g.user # A => g \in goals
           /\ \A row \in RowsShown(response') : row.user = A
           /\ response'.op = "metric_list" =>
                  {row.id : row \in RowsShown(response')} = {m.id : m \in mine}
           /\ response'.op = "goal_list" =>
                  {row.id : row \in RowsShown(response')} = {g.id : g \in myGoals}
           /\ response'.op = "dashboard" =>
                  /\ response'.body.total_metrics_logged = Cardinality(mine)
                  /\ response'.body.metrics_this_week <= Cardinality(mine)
                  /\ response'.body.active_goals <= Cardinality(myGoals)
                  /\ response'.body.goals_on_track <= Cardinality(myGoals)
      ]_vars

\* a user's request to deactivate was answered with not found while every goal
\* there is belongs to the other user and is still active, and both users
\* hold observations
C16_Witness ==
    /\ response.op = "goal_deactivate"
    /\ response.status = "not_found"
    /\ goals # {}
    /\ \A g \in goals : g.user # response.user /\ g.is_active
    /\ \E m \in metrics : m.user # response.user
    /\ \E m \in metrics : m.user = response.user

-----------------------------------------------------------------------------
(* Recent observations: a user who has logged up to MaxRecent observations *)
(* of two metric types over the last days, in any order of logging, reads  *)
(* the dashboard and deletes observations; the other user holds one.       *)

MaxRecent == 6       \* observations of the user when the scenario starts

RecentKeys == TrackedTypes \X {FirstDay - d : d \in 0..(MaxRecent \div 3)}

\* the store after the user logged the keys f[1], f[2], ... in this order and
\* the other user logged one observation
LoggedInOrder(f) ==
    {[id |-> i, user |-> "alice", metric_type |-> f[i][1], value |-> 3,
      recorded_date |-> f[i][2], notes |-> ""] : i \in DOMAIN f}
        \cup {[id |-> MaxRecent + 1, user |-> "bob", metric_type |-> "steps",
               value |-> 3, recorded_date |-> FirstDay, notes |-> ""]}

InitRecent ==
    /\ \E n \in 0..MaxRecent : \E f \in [1..n -> RecentKeys] :
           /\ \A i, j \in 1..n : i # j => f[i] # f[j]
           /\ metrics = LoggedInOrder(f)
    /\ goals = {}
    /\ today = FirstDay
    /\ nextMetricId = MaxRecent + 2
    /\ nextGoalId = 1
    /\ pending = [s \in Requests |-> NoRow]
    /\ response = Response("none", "", "none", NoBody)

NextRecent ==
    \/ \E user \in Users : DashboardList(user)
    \/ \E pk \in 1..MaxRecent : MetricDestroy("alice", pk)

SpecRecent == InitRecent /\ [][NextRecent]_vars

\* C18: the dashboard's recent_metrics of every user holds min(5, number of
\* the user's observations) of the user's observations, each once, in the
\* order recorded_date descending and then creation descending, and no
\* observation of the user outside the list comes before one inside it in
\* that order.
C18_RecentFive ==
    \A u \in Users :
        LET recent == Dashboard(u).recent_metrics
            mine == {m \in metrics : m.user = u}
            shown == {recent[i] : i \in 1..Len(recent)}
        IN  /\ Len(recent) = (IF Cardinality(mine) < 5 THEN Cardinality(mine) ELSE 5)
            /\ shown \subseteq mine
            /\ Cardinality(shown) = Len(recent)
            /\ \A i, j \in 1..Len(recent) :
                   i < j => \/ recent[i].recorded_date > recent[j].recorded_date
                            \/ /\ recent[i].recorded_date = recent[j].recorded_date
                               /\ recent[i].id > recent[j].id
            /\ \A m \in mine \ shown : \A r \in shown :
                   \/ m.recorded_date < r.recorded_date
                   \/ m.recorded_date = r.recorded_date /\ m.id < r.id

\* the dashboard of a user with six observations was read: it shows five,
\* two of them of one date, and leaves out one that was not the first logged
C18_Witness ==
    /\ FreshDashboard
    /\ Cardinality({m \in metrics : m.user = response.user}) = 6
    /\ Len(response.body.recent_metrics) = 5
    /\ \E i \in 1..4 : response.body.recent_metrics[i].recorded_date
                           = response.body.recent_metrics[i + 1].recorded_date
    /\ \E m \in metrics :
           /\ m.user = response.user
           /\ m.id > 1
           /\ \A i \in 1..5 : response.body.recent_metrics[i] # m

-----------------------------------------------------------------------------
(* Reads: on some day two users log observations and set goals, and read   *)
(* goals and the dashboard, also twice in a row.                           *)

ReadMetricInputs == [metric_type : TrackedTypes, value : {5}]
ReadGoalInputs == [metric_type : {"steps"}, target_value : {4, 8}, goal_type : {DAILY, WEEKLY}]

InitReads == \E day \in FirstDay..LastDay : InitOn(day)

NextReads ==
    \/ \E user \in Users, attrs \in ReadMetricInputs :
           nextMetricId <= MaxKeyed /\ MetricCreate(user, attrs)
    \/ \E user \in Users, attrs \in ReadGoalInputs :
           nextGoalId <= MaxKeyed /\ GoalCreate(user, attrs)
    \/ \E user \in Users, pk \in 1..MaxKeyed : GoalRetrieve(user, pk)
    \/ \E user \in Users : DashboardList(user)

SpecReads == InitReads /\ [][NextReads]_vars

\* C19: a request for a goal (with its progress) or for the dashboard leaves
\* the observations, the goals and the day as they were, and a request that
\* repeats the request before it, by the same user for the same goal or
\* dashboard, returns the same result.
C19_ReadOnly ==
    [][response'.op \in {"goal_retrieve", "dashboard"} =>
           /\ metrics' = metrics
           /\ goals' = goals
           /\ today' = today
           /\ nextMetricId' = nextMetricId /\ nextGoalId' = nextGoalId
           /\ (/\ response.op = response'.op
               /\ response.user = response'.user
               /\ response.status = "ok" /\ response'.status = "ok"
               /\ response.op = "goal_retrieve" => response.body.id = response'.body.id)
                  => response'.body = response.body]_vars

\* the dashboard was read in a store with two observations of the user and
\* a goal the user has fully reached
C19_Witness ==
    /\ FreshDashboard
    /\ response.body.total_metrics_logged = 2
    /\ response.body.goals_on_track = 1
    /\ response.body.goal_progress[1].progress.percentage = 1000
    /\ response.body.goal_progress[1].is_active

-----------------------------------------------------------------------------
(* The range of the percentage: a user logs and changes values, sets and   *)
(* changes targets, negative ones among the requests, and days pass.       *)

RangeMetricInputs == [metric_type : {"steps"}, value : {-1, 0, 3, 10}]
RangeMetricPatch == [value : {-1, 0, 10}]
RangeGoalInputs == [metric_type : {"steps"}, target_value : {-1, 0, 4}, goal_type : {DAILY, WEEKLY}]
RangeGoalPatch == [target_value : {-1, 0, 20}]

NextRange ==
    \/ \E attrs \in RangeMetricInputs :
           nextMetricId <= MaxKeyed /\ MetricCreate("alice", attrs)
    \/ \E pk \in 1..MaxKeyed, attrs \in RangeMetricPatch :
           MetricUpdate("alice", pk, attrs, TRUE)
    \/ \E attrs \in RangeGoalInputs : GoalCreate("alice", attrs)
    \/ \E pk \in 1..MaxGoals, attrs \in RangeGoalPatch :
           GoalUpdate("alice", pk, attrs, TRUE)
    \/ Tick(FirstDay + 1)

SpecRange == Init /\ [][NextRange]_vars

\* C20: in every state that create and update requests lead to, no stored
\* value or target is negative and the progress percentage of every goal is
\* between 0 and 100.
C20_PercentageRange ==
    /\ \A m \in metrics : m.value >= 0
    /\ \A g \in goals :
           /\ g.target_value >= 0
           /\ get_progress(g).percentage >= 0
           /\ get_progress(g).percentage <= 1000

\* a request with a negative number has just been refused while one goal of
\* the user is above its target, at 100 percent, and another is between 0
\* and 100 percent
C20_Witness ==
    /\ response.status = "validation_error"
    /\ \E f \in {"value", "target_value"} : f \in DOMAIN response.body /\ response.body[f] < 0
    /\ \E g \in goals : /\ get_progress(g).percentage = 1000
                        /\ get_progress(g).current_value[1]
                               > g.target_value * get_progress(g).current_value[2]
    /\ \E g \in goals : /\ get_progress(g).percentage > 0
                        /\ get_progress(g).percentage < 1000

=============================================================================
